---- MODULE Spec2Model ----
(***************************************************************************)
(* A model of the ALARM buddy-block allocator (alarm-buddy) together with *)
(* the intrusive doubly-linked list (intruder-alarm) that backs its free   *)
(* lists.  Memory is a map from addresses to FreeBlock headers; the free   *)
(* lists are head/tail/len records whose nodes are linked through the      *)
(* headers' next/prev fields, as in the source.                            *)
(***************************************************************************)
EXTENDS Integers, Sequences, FiniteSets, TLC

\* ------------------------------------------------------------------------
\* Parameters of the modelled heap
\* ------------------------------------------------------------------------

\* Heap::min_block_size
MinBlockSize == 2

\* FrameAllocator::FRAME_SIZE
FRAME_SIZE == 8

\* free_lists.len(): the number of free lists the heap was given
NumOrders == 4

\* Heap::base_ptr (FRAME_SIZE-aligned)
Base == 8

\* size_of::<FreeBlock>(): size + next + prev, one 8-byte word each
SizeOfFreeBlock == 24

\* The number of frames the frame provider holds when the heap is built.
MaxFrames == 2

\* The null link (Link::none()); no block lives at address 0.
Null == 0

\* The layouts the callers request: a minimum-size block, a size that is not
\* a power of two and lies below its alignment, a whole frame, two frames,
\* an alignment that is not a power of two and one above FRAME_SIZE.
Layout(size, align) == [size |-> size, align |-> align]
Layouts == {Layout(2, 1), Layout(3, 4), Layout(8, 8),
            Layout(16, 1), Layout(2, 3), Layout(2, 16)}

\* The frames the provider may hand out: FRAME_SIZE-aligned, above the base.
FrameAddrs == {Base + i * FRAME_SIZE : i \in 1..MaxFrames}

Orders == 0..(NumOrders - 1)

\* ------------------------------------------------------------------------
\* usize arithmetic
\* ------------------------------------------------------------------------

RECURSIVE BitAnd(_, _)
BitAnd(a, b) ==
    IF a = 0 \/ b = 0 THEN 0
    ELSE (IF a % 2 = 1 /\ b % 2 = 1 THEN 1 ELSE 0) + 2 * BitAnd(a \div 2, b \div 2)

RECURSIVE BitXor(_, _)
BitXor(a, b) ==
    IF a = 0 THEN b
    ELSE IF b = 0 THEN a
    ELSE (IF a % 2 = b % 2 THEN 0 ELSE 1) + 2 * BitXor(a \div 2, b \div 2)

\* usize::is_power_of_two
is_power_of_two(x) == x # 0 /\ BitAnd(x, x - 1) = 0

\* usize::next_power_of_two: the smallest power of two >= x
RECURSIVE next_power_of_two(_)
next_power_of_two(x) ==
    IF x <= 1 THEN 1 ELSE 2 * next_power_of_two((x + 1) \div 2)

\* log2.rs: S = [1, 2, 4, 8, 16, 32]; B[i] masks bits S[i] .. 2*S[i]-1.
S == <<1, 2, 4, 8, 16, 32>>

\* The test v & B[i] != 0 taken on the bits below the mask.
MaskedNonZero_low(v, i) ==
    IF S[i] = 32 THEN FALSE
    ELSE (v % (2 ^ S[i])) # 0

\* v & B[i] != 0.  Every value of the model is below 2^31, so the bits the
\* last mask (0xFFFFFFFF00000000) selects are all zero.
MaskedNonZero(v, i) ==
    IF S[i] = 32 THEN FALSE
    ELSE ((v \div (2 ^ S[i])) % (2 ^ S[i])) # 0

\* The loop body of log2 for i = n, n-1, .., 1 (the code's (0..S.len()).rev());
\* result |= S[i] sets a bit that is not yet set, so it adds S[i].
RECURSIVE Log2Loop(_, _, _)
Log2Loop(v, result, i) ==
    IF i = 0 THEN result
    ELSE IF MaskedNonZero(v, i)
         THEN Log2Loop(v \div (2 ^ S[i]), result + S[i], i - 1)
         ELSE Log2Loop(v, result, i - 1)

\* impl Log2 for usize
Log2(v) == Log2Loop(v, 0, Len(S))

\* Heap::min_block_size_log2
min_block_size_log2 == Log2(MinBlockSize)

\* ------------------------------------------------------------------------
\* State
\* ------------------------------------------------------------------------

VARIABLES
    mem,          \* address -> FreeBlock header [size, next, prev] written there
    free_lists,   \* order -> List [head, tail, len]
    heap_size,    \* Heap::heap_size
    frames,       \* the frames the provider still holds, in the order it hands them out
    outstanding,  \* allocations handed to callers and not yet deallocated
    last,         \* the last call: operation, layout, result, the frames it asked
                  \* for, and whether the heap was one whole free block before it
    nodes,        \* a List's nodes: node -> Links [next, prev]
    list,         \* a List [head, tail, len] of those nodes
    cursor,       \* the CursorMut open on the list, if any: [open, current]
    deque,        \* the sequence the list stands for, kept by the abstract operations
    owned,        \* the nodes the list's user holds (not handed to the list)
    lret,         \* the last call on the list or its cursor: operation, argument, result
    stack,        \* a Stack [top, len] of the user's nodes
    tally,        \* the pushes and the successful pops made on the stack
    call,         \* the last call of a pure function: function, arguments, result
    mutex,        \* the spin::Mutex of a LockedAlloc: the thread that holds it, or Null
    thr           \* each thread's call through the LockedAlloc: where it is in the
                  \* call, what it called, the heap as it found it

heapvars == <<mem, free_lists, heap_size, frames, outstanding, last>>

listvars == <<nodes, list, cursor, deque, owned, lret, stack, tally>>

lockvars == <<mutex, thr>>

vars == <<heapvars, listvars, call, lockvars>>

\* FreeBlock { size, ..Default::default() }
Header(size) == [size |-> size, next |-> Null, prev |-> Null]

Write(m, addr, hdr) == [a \in DOMAIN m \cup {addr} |-> IF a = addr THEN hdr ELSE m[a]]

EmptyList == [head |-> Null, tail |-> Null, len |-> 0]

\* Stack::new()
Stack_new == [top |-> Null, len |-> 0]

\* push_node that does not link the node to the old top.
push_node_no_link(m, s, node) ==
    [mem |-> m, stack |-> [top |-> node, len |-> s.len + 1]]

\* Stack::push_node
push_node(m, s, node) ==
    [mem   |-> [m EXCEPT ![node].next = s.top],
     stack |-> [top |-> node, len |-> s.len + 1]]

\* Stack::pop_node; node = Null stands for None (take_next unlinks the node)
pop_node(m, s) ==
    IF s.top = Null
    THEN [mem |-> m, stack |-> s, node |-> Null]
    ELSE LET node == s.top
         IN  [mem   |-> [m EXCEPT ![node].next = Null],
              stack |-> [top |-> m[node].next, len |-> s.len - 1],
              node  |-> node]

\* Stack::peek
peek(s) == s.top

\* The number of nodes the user of the stand-alone list has.
MaxNodes == 3

NodeIds == 1..MaxNodes

\* Links::new()
Links_new == [next |-> Null, prev |-> Null]

\* No CursorMut is open on the list.
NoCursor == [open |-> FALSE, current |-> Null]

\* ------------------------------------------------------------------------
\* intruder-alarm: List
\* ------------------------------------------------------------------------

\* List::push_front_node
push_front_node(m, l, node) ==
    LET m1 == [m EXCEPT ![node].next = l.head, ![node].prev = Null]
        m2 == IF l.head = Null THEN m1 ELSE [m1 EXCEPT ![l.head].prev = node]
    IN  [mem  |-> m2,
         list |-> [head |-> node,
                   tail |-> IF l.head = Null THEN node ELSE l.tail,
                   len  |-> l.len + 1]]

\* take_links that reads the node's links and leaves them in the node.
take_links_reads(m, node) == m

\* Linked::take_links: the node's links are replaced by Links::new()
take_links(m, node) == [m EXCEPT ![node].next = Null, ![node].prev = Null]

\* List::pop_front_node; node = Null stands for None
pop_front_node(m, l) ==
    IF l.head = Null
    THEN [mem |-> m, list |-> l, node |-> Null]
    ELSE LET node == l.head
             next == m[node].next
             m1   == take_links(m, node)
             m2   == IF next = Null THEN m1 ELSE [m1 EXCEPT ![next].prev = Null]
         IN  [mem  |-> m2,
              list |-> [head |-> next,
                        tail |-> IF next = Null THEN Null ELSE l.tail,
                        len  |-> l.len - 1],
              node |-> node]

\* push_back_node that leaves the node's prev link as it was.
push_back_node_no_prev(m, l, node) ==
    LET m1 == [m EXCEPT ![node].next = Null]
        m2 == IF l.tail = Null THEN m1 ELSE [m1 EXCEPT ![l.tail].next = node]
    IN  [mem  |-> m2,
         list |-> [head |-> IF l.tail = Null THEN node ELSE l.head,
                   tail |-> node,
                   len  |-> l.len + 1]]

\* List::push_back_node
push_back_node(m, l, node) ==
    LET m1 == [m EXCEPT ![node].next = Null, ![node].prev = l.tail]
        m2 == IF l.tail = Null THEN m1 ELSE [m1 EXCEPT ![l.tail].next = node]
    IN  [mem  |-> m2,
         list |-> [head |-> IF l.tail = Null THEN node ELSE l.head,
                   tail |-> node,
                   len  |-> l.len + 1]]

\* pop_back_node that takes the node at the front.
pop_back_node_at_front(m, l) == pop_front_node(m, l)

\* List::pop_back_node; node = Null stands for None
pop_back_node(m, l) ==
    IF l.tail = Null
    THEN [mem |-> m, list |-> l, node |-> Null]
    ELSE LET node == l.tail
             prev == m[node].prev
             m1   == take_links(m, node)
             m2   == IF prev = Null THEN m1 ELSE [m1 EXCEPT ![prev].next = Null]
         IN  [mem  |-> m2,
              list |-> [head |-> IF prev = Null THEN Null ELSE l.head,
                        tail |-> prev,
                        len  |-> l.len - 1],
              node |-> node]

\* List::head; Null stands for None
head(l) == l.head

\* List::tail
tail(l) == l.tail

\* List::cursor_mut: the cursor starts on the head
cursor_mut(l) == l.head

\* CursorMut::get: the node under the cursor
get(current) == current

\* move_forward that follows the prev link.
move_forward_by_prev(m, current) == IF current = Null THEN Null ELSE m[current].prev

\* Cursor::move_forward and CursorMut::move_forward: the cursor's new position
move_forward(m, current) == IF current = Null THEN Null ELSE m[current].next

\* Cursor::move_back and CursorMut::move_back
move_back(m, current) == IF current = Null THEN Null ELSE m[current].prev

\* List::cursor: the read-only cursor starts on the head
cursor_at(l) == l.head

\* Iterator::next of a Cursor: the item under the cursor, the cursor moved
\* forward
Iterator_next(m, current) == [item |-> get(current), current |-> move_forward(m, current)]

\* The items a Cursor yields as an iterator, until next() returns None.
RECURSIVE collect(_, _)
collect(m, current) ==
    LET r == Iterator_next(m, current)
    IN  IF r.item = Null THEN <<>> ELSE <<r.item>> \o collect(m, r.current)

\* remove_node that counts a removal even when the cursor is on nothing.
remove_node_counts_none(m, l, current) ==
    IF current = Null
    THEN [mem |-> m, list |-> [l EXCEPT !.len = l.len - 1], node |-> Null, current |-> Null]
    ELSE LET next == m[current].next
             prev == m[current].prev
             m1   == take_links(m, current)
             m2   == IF next = Null THEN m1 ELSE [m1 EXCEPT ![next].prev = prev]
             m3   == IF prev = Null THEN m2 ELSE [m2 EXCEPT ![prev].next = next]
         IN  [mem  |-> m3,
              list |-> [head |-> IF l.head = current THEN next ELSE l.head,
                        tail |-> IF l.tail = current THEN prev ELSE l.tail,
                        len  |-> l.len - 1],
              node |-> current,
              current |-> next]

\* remove_node that leaves the list's tail as it was.
remove_node_keeps_tail(m, l, current) ==
    IF current = Null
    THEN [mem |-> m, list |-> l, node |-> Null, current |-> Null]
    ELSE LET next == m[current].next
             prev == m[current].prev
             m1   == take_links(m, current)
             m2   == IF next = Null THEN m1 ELSE [m1 EXCEPT ![next].prev = prev]
             m3   == IF prev = Null THEN m2 ELSE [m2 EXCEPT ![prev].next = next]
         IN  [mem  |-> m3,
              list |-> [head |-> IF l.head = current THEN next ELSE l.head,
                        tail |-> l.tail,
                        len  |-> l.len - 1],
              node |-> current,
              current |-> next]

\* CursorMut::remove_node with the cursor on `current`
remove_node(m, l, current) ==
    IF current = Null
    THEN [mem |-> m, list |-> l, node |-> Null, current |-> Null]
    ELSE LET next == m[current].next
             prev == m[current].prev
             m1   == take_links(m, current)
             m2   == IF next = Null THEN m1 ELSE [m1 EXCEPT ![next].prev = prev]
             m3   == IF prev = Null THEN m2 ELSE [m2 EXCEPT ![prev].next = next]
         IN  [mem  |-> m3,
              list |-> [head |-> IF l.head = current THEN next ELSE l.head,
                        tail |-> IF l.tail = current THEN prev ELSE l.tail,
                        len  |-> l.len - 1],
              node |-> current,
              current |-> next]

\* remove_first_node that tests only the node under the cursor.
remove_first_node_no_scan(m, l, current, pred) ==
    IF current = Null \/ current \notin pred
    THEN [mem |-> m, list |-> l, node |-> Null, current |-> Null]
    ELSE remove_node(m, l, current)

\* CursorMut::remove_first_node; the predicate is the set `pred` of the
\* nodes whose item it accepts
RECURSIVE remove_first_node(_, _, _, _)
remove_first_node(m, l, current, pred) ==
    IF get(current) = Null
    THEN [mem |-> m, list |-> l, node |-> Null, current |-> Null]
    ELSE IF current \in pred
         THEN remove_node(m, l, current)
         ELSE remove_first_node(m, l, move_forward(m, current), pred)

\* remove_all_nodes that stops after the first removal.
remove_all_nodes_once(m, l, current, pred) ==
    LET r == remove_first_node(m, l, current, pred)
    IN  [mem |-> r.mem, list |-> r.list, current |-> r.current,
         items |-> IF r.node = Null THEN <<>> ELSE <<r.node>>]

\* CursorMut::remove_all_nodes: remove_first_node on the same cursor until it
\* returns None; items are the removed nodes in the order they were removed
RECURSIVE remove_all_nodes(_, _, _, _)
remove_all_nodes(m, l, current, pred) ==
    LET r == remove_first_node(m, l, current, pred)
    IN  IF r.node = Null
        THEN [mem |-> r.mem, list |-> r.list, current |-> r.current, items |-> <<>>]
        ELSE LET rest == remove_all_nodes(r.mem, r.list, r.current, pred)
             IN  [rest EXCEPT !.items = <<r.node>> \o rest.items]

\* insert_node_before that does not link the old previous node to the node.
insert_node_before_no_prev(m, l, current, node) ==
    LET prev == IF current = Null THEN Null ELSE m[current].prev
        m1   == [m EXCEPT ![node].next = current, ![node].prev = prev]
        m3   == IF current # Null THEN [m1 EXCEPT ![current].prev = node] ELSE m1
    IN  [mem  |-> m3,
         list |-> [head |-> IF l.head = current THEN node ELSE l.head,
                   tail |-> IF l.tail = current THEN node ELSE l.tail,
                   len  |-> l.len + 1],
         current |-> node]

\* CursorMut::insert_node_before with the cursor on `current`
insert_node_before(m, l, current, node) ==
    LET prev == IF current = Null THEN Null ELSE m[current].prev
        m1   == [m EXCEPT ![node].next = current, ![node].prev = prev]
        m2   == IF current # Null /\ prev # Null THEN [m1 EXCEPT ![prev].next = node] ELSE m1
        m3   == IF current # Null THEN [m2 EXCEPT ![current].prev = node] ELSE m2
    IN  [mem  |-> m3,
         list |-> [head |-> IF l.head = current THEN node ELSE l.head,
                   tail |-> IF l.tail = current THEN node ELSE l.tail,
                   len  |-> l.len + 1],
         current |-> node]

\* insert_node_after that leaves the list's tail as it was.
insert_node_after_keeps_tail(m, l, current, node) ==
    LET next == IF current = Null THEN Null ELSE m[current].next
        m1   == [m EXCEPT ![node].prev = current, ![node].next = next]
        m2   == IF current # Null /\ next # Null THEN [m1 EXCEPT ![next].prev = node] ELSE m1
        m3   == IF current # Null THEN [m2 EXCEPT ![current].next = node] ELSE m2
    IN  [mem  |-> m3,
         list |-> [l EXCEPT !.len = l.len + 1],
         current |-> current]

\* CursorMut::insert_node_after with the cursor on `current`
insert_node_after(m, l, current, node) ==
    LET next == IF current = Null THEN Null ELSE m[current].next
        m1   == [m EXCEPT ![node].prev = current, ![node].next = next]
        m2   == IF current # Null /\ next # Null THEN [m1 EXCEPT ![next].prev = node] ELSE m1
        m3   == IF current # Null THEN [m2 EXCEPT ![current].next = node] ELSE m2
    IN  [mem  |-> m3,
         list |-> [head |-> l.head,
                   tail |-> IF l.tail = current THEN node ELSE l.tail,
                   len  |-> l.len + 1],
         current |-> current]

\* CursorMut::find_and_remove: whether a node matching the predicate was
\* found by a scan from the cursor, the node being removed if so.
find_and_remove(m, l, target) ==
    LET r == remove_first_node(m, l, l.head, {target})
    IN  [mem |-> r.mem, list |-> r.list, found |-> r.node # Null]

\* The nodes of a list, by forward traversal from head.
RECURSIVE Traverse(_, _, _)
Traverse(m, node, fuel) ==
    IF node = Null \/ fuel = 0 THEN <<>>
    ELSE <<node>> \o Traverse(m, m[node].next, fuel - 1)

Blocks(k) == Traverse(mem, free_lists[k].head, MaxFrames + 2)

\* ------------------------------------------------------------------------
\* alarm-buddy: Heap
\* ------------------------------------------------------------------------

\* The Err(AllocErr) of an AllocResult: AllocErr is a unit struct, so every
\* error of the heap is this one value.
Err == -1

\* No error (the call returned Ok).
NoErr == 0

\* block_size without the test that the alignment is a power of two.
block_size_any_align(hs, layout) ==
    IF layout.align > FRAME_SIZE THEN Err
    ELSE LET size1 == IF layout.size >= layout.align THEN layout.size ELSE layout.align
             size2 == IF size1 >= MinBlockSize THEN size1 ELSE MinBlockSize
             size3 == next_power_of_two(size2)
         IN  IF size3 > hs THEN Err ELSE size3

\* block_size without the test of the alignment against FRAME_SIZE.
block_size_no_frame_check(hs, layout) ==
    IF ~is_power_of_two(layout.align) THEN Err
    ELSE LET size1 == IF layout.size >= layout.align THEN layout.size ELSE layout.align
             size2 == IF size1 >= MinBlockSize THEN size1 ELSE MinBlockSize
             size3 == next_power_of_two(size2)
         IN  IF size3 > hs THEN Err ELSE size3

\* block_size without the rounding up to min_block_size.
block_size_no_min(hs, layout) ==
    IF ~is_power_of_two(layout.align) THEN Err
    ELSE IF layout.align > FRAME_SIZE THEN Err
    ELSE LET size1 == IF layout.size >= layout.align THEN layout.size ELSE layout.align
             size3 == next_power_of_two(size1)
         IN  IF size3 > hs THEN Err ELSE size3

\* Heap::block_size
block_size(hs, layout) ==
    IF ~is_power_of_two(layout.align) THEN Err
    ELSE IF layout.align > FRAME_SIZE THEN Err
    ELSE LET size1 == IF layout.size >= layout.align THEN layout.size ELSE layout.align
             size2 == IF size1 >= MinBlockSize THEN size1 ELSE MinBlockSize
             size3 == next_power_of_two(size2)
         IN  IF size3 > hs THEN Err ELSE size3

\* Heap::order_from_size
order_from_size(size) == Log2(size) - min_block_size_log2

\* Heap::block_order
block_order(hs, layout) ==
    LET size == block_size(hs, layout)
    IN  IF size = Err THEN Err ELSE order_from_size(size)

\* The heap as one value: what the operations below read and return.
HeapState == [mem |-> mem, free_lists |-> free_lists,
              heap_size |-> heap_size, frames |-> frames]

\* push_block_order linking the block at the back of the free list.
push_block_order_back(s, block, order) ==
    LET r == push_back_node(s.mem, s.free_lists[order], block)
    IN  [s EXCEPT !.mem = r.mem, !.free_lists[order] = r.list]

\* Heap::push_block_order
push_block_order(s, block, order) ==
    LET r == push_front_node(s.mem, s.free_lists[order], block)
    IN  [s EXCEPT !.mem = r.mem, !.free_lists[order] = r.list]

\* Heap::push_block: the order is computed from the header's size field
push_block(s, block) == push_block_order(s, block, order_from_size(s.mem[block].size))

\* get_buddy adding the size to the offset where the code takes the XOR.
get_buddy_plus(s, block, order) ==
    LET size == 2 ^ (min_block_size_log2 + order)
    IN  IF size = s.heap_size THEN Null
        ELSE Base + (block - Base) + size

\* Heap::get_buddy; Null stands for None
get_buddy(s, block, order) ==
    LET size == 2 ^ (min_block_size_log2 + order)
    IN  IF size = s.heap_size THEN Null
        ELSE Base + BitXor(block - Base, size)

\* FreeBlock::from_ptr_size
from_ptr_size(m, ptr, size) == Write(m, ptr, Header(size))

\* split writing the new header `size` bytes further on.
split_bytes(m, block) ==
    LET size      == m[block].size \div 2
        m1        == [m EXCEPT ![block].size = size]
        split_ptr == block + size
    IN  [mem |-> from_ptr_size(m1, split_ptr, size), split |-> split_ptr]

\* FreeBlock::split: the header at `block` keeps half the size; the new
\* header is written `size` elements of FreeBlock further on
\* (block.offset(size) on a *mut FreeBlock).
split(m, block) ==
    LET size      == m[block].size \div 2
        m1        == [m EXCEPT ![block].size = size]
        split_ptr == block + size * SizeOfFreeBlock
    IN  [mem |-> from_ptr_size(m1, split_ptr, size), split |-> split_ptr]

\* merge keeping the block with the higher address.
merge_higher(m, a, b) ==
    LET block == IF a >= b THEN a ELSE b
    IN  [mem |-> [m EXCEPT ![block].size = m[a].size + m[b].size], block |-> block]

\* merge keeping the block that is being deallocated, whichever is lower.
merge_first(m, a, b) ==
    [mem |-> [m EXCEPT ![a].size = m[a].size + m[b].size], block |-> a]

\* FreeBlock::merge
merge(m, a, b) ==
    LET block == IF a <= b THEN a ELSE b
    IN  [mem |-> [m EXCEPT ![block].size = m[a].size + m[b].size], block |-> block]

\* refill with a provider that never runs out: the frame goes back to the
\* end of the provider's queue, and nothing is added to the heap.
refill_rotates(s) ==
    IF s.frames = <<>>
    THEN [s |-> s, ok |-> FALSE, err |-> Err]
    ELSE [s |-> [s EXCEPT !.frames = Tail(s.frames) \o <<Head(s.frames)>>], ok |-> TRUE,
          err |-> NoErr]

\* Heap::refill
refill(s) ==
    IF s.frames = <<>>
    THEN [s |-> s, ok |-> FALSE, err |-> Err]
    ELSE LET new_frame == Head(s.frames)
             s1 == [s EXCEPT !.frames = Tail(s.frames),
                             !.mem = from_ptr_size(s.mem, new_frame, FRAME_SIZE)]
             s2 == push_block(s1, new_frame)
         IN  [s |-> [s2 EXCEPT !.heap_size = s2.heap_size + FRAME_SIZE], ok |-> TRUE,
              err |-> NoErr]

\* The half-open range a..b of a Rust `for`, as a sequence (empty when a >= b).
Range(a, b) == IF a >= b THEN <<>> ELSE [i \in 1..(b - a) |-> a + i - 1]

\* Heap::alloc, the inner loop: for split_order in current_order..min_order
RECURSIVE SplitLoop(_, _, _)
SplitLoop(s, block, split_orders) ==
    IF split_orders = <<>> THEN s
    ELSE LET r  == split(s.mem, block)
             s1 == push_block_order([s EXCEPT !.mem = r.mem], r.split, Head(split_orders))
         IN  SplitLoop(s1, block, Tail(split_orders))

\* The outer loop taking the first block it meets from the highest order down.
RECURSIVE AllocScan_from_top(_, _, _)
AllocScan_from_top(s, min_order, current_orders) ==
    IF current_orders = <<>> THEN [s |-> s, ptr |-> Null]
    ELSE LET current_order == current_orders[Len(current_orders)]
             r == pop_front_node(s.mem, s.free_lists[current_order])
         IN  IF r.node = Null
             THEN AllocScan_from_top(s, min_order, SubSeq(current_orders, 1, Len(current_orders) - 1))
             ELSE [s   |-> [s EXCEPT !.mem = r.mem, !.free_lists[current_order] = r.list],
                   ptr |-> r.node]

\* Heap::alloc, the outer loop: for current_order in min_order..free_lists.len()
RECURSIVE AllocScan(_, _, _)
AllocScan(s, min_order, current_orders) ==
    IF current_orders = <<>> THEN [s |-> s, ptr |-> Null]
    ELSE LET current_order == Head(current_orders)
             r == pop_front_node(s.mem, s.free_lists[current_order])
         IN  IF r.node = Null
             THEN AllocScan(s, min_order, Tail(current_orders))
             ELSE LET s1 == [s EXCEPT !.mem = r.mem, !.free_lists[current_order] = r.list]
                  IN  [s   |-> SplitLoop(s1, r.node, Range(current_order, min_order)),
                       ptr |-> r.node]

\* Heap::alloc.  `asked` counts the calls of frames.alloc() so far in this
\* call of alloc.
RECURSIVE alloc(_, _, _)
alloc(s, layout, asked) ==
    LET min_order == block_order(s.heap_size, layout)
    IN  IF min_order = Err
        THEN [s |-> s, ok |-> FALSE, ptr |-> Null, asked |-> asked, err |-> min_order]
        ELSE LET r == AllocScan(s, min_order, Range(min_order, NumOrders))
             IN  IF r.ptr # Null
                 THEN [s |-> r.s, ok |-> TRUE, ptr |-> r.ptr, asked |-> asked, err |-> NoErr]
                 ELSE LET f == refill(s)
                      IN  IF ~f.ok
                          THEN [s |-> s, ok |-> FALSE, ptr |-> Null, asked |-> asked + 1,
                                err |-> f.err]
                          ELSE alloc(f.s, layout, asked + 1)

\* One activation of Heap::alloc, up to its return or its call of itself:
\* status "ok" (return Ok(block)), "err" (block_order or refill returned an
\* error) or "again" (refill succeeded: self.alloc(layout)); asked is the
\* number of calls of frames.alloc() the activation made, taken the number
\* of frames it got.
alloc_body(s, layout) ==
    LET min_order == block_order(s.heap_size, layout)
    IN  IF min_order = Err
        THEN [s |-> s, status |-> "err", ptr |-> Null, asked |-> 0, taken |-> 0]
        ELSE LET r == AllocScan(s, min_order, Range(min_order, NumOrders))
             IN  IF r.ptr # Null
                 THEN [s |-> r.s, status |-> "ok", ptr |-> r.ptr, asked |-> 0, taken |-> 0]
                 ELSE LET f == refill(s)
                      IN  IF ~f.ok
                          THEN [s |-> s, status |-> "err", ptr |-> Null, asked |-> 1, taken |-> 0]
                          ELSE [s |-> f.s, status |-> "again", ptr |-> Null, asked |-> 1, taken |-> 1]

\* Heap::dealloc, the loop: while let Some(buddy) = self.get_buddy(block, order)
RECURSIVE DeallocLoop(_, _, _)
DeallocLoop(s, block, order) ==
    LET buddy == get_buddy(s, block, order)
    IN  IF buddy = Null THEN [s |-> s, block |-> block]
        ELSE LET r == find_and_remove(s.mem, s.free_lists[order], buddy)
             IN  IF r.found
                 THEN LET s1 == [s EXCEPT !.mem = r.mem, !.free_lists[order] = r.list]
                          g  == merge(s1.mem, block, buddy)
                      IN  DeallocLoop([s1 EXCEPT !.mem = g.mem], g.block, order)
                 ELSE [s |-> s, block |-> block]

\* Heap::dealloc, for a layout block_order accepts
dealloc(s, ptr, layout) ==
    LET order == block_order(s.heap_size, layout)
        s1    == [s EXCEPT !.mem = from_ptr_size(s.mem, ptr, layout.size)]
        r     == DeallocLoop(s1, ptr, order)
    IN  push_block_order(r.s, r.block, order)

\* dealloc writing the block header before it asks block_order.
dealloc_header_first(s, ptr, layout) ==
    LET s1 == [s EXCEPT !.mem = from_ptr_size(s.mem, ptr, layout.size)]
    IN  IF block_order(s.heap_size, layout) = Err
        THEN [s |-> s1, panicked |-> TRUE]
        ELSE [s |-> dealloc(s, ptr, layout), panicked |-> FALSE]

\* Heap::dealloc with its first statement: block_order(&layout).expect(..)
\* panics on a layout block_order rejects, before anything else runs.
dealloc_or_panic(s, ptr, layout) ==
    IF block_order(s.heap_size, layout) = Err
    THEN [s |-> s, panicked |-> TRUE]
    ELSE [s |-> dealloc(s, ptr, layout), panicked |-> FALSE]

\* ------------------------------------------------------------------------
\* The state machine
\* ------------------------------------------------------------------------

\* All orders in which the provider may hand out its frames.
FrameOrders == {q \in [1..MaxFrames -> FrameAddrs] : \A i, j \in 1..MaxFrames : i # j => q[i] # q[j]}

NoLayout == [size |-> 0, align |-> 0]

\* The order whose blocks are as large as the whole heap, if there is one.
TopOrders == {k \in Orders : MinBlockSize * (2 ^ k) = heap_size}

\* The heap's only free block is one block at the base that covers the whole
\* heap, linked in the free list of its order; nothing is allocated.
Whole ==
    /\ outstanding = {}
    /\ \E n \in TopOrders :
          /\ Blocks(n) = <<Base>>
          /\ free_lists[n].len = 1
          /\ mem[Base].size = heap_size
          /\ \A k \in Orders \ {n} : free_lists[k] = EmptyList

\* What is kept of a call on the list: the operation, the node or the
\* predicate handed in, the node handed back (Null for none).
Ret(op, arg, pred, node) ==
    [op |-> op, arg |-> arg, pred |-> pred, node |-> node, items |-> <<>>]

\* List::new(): an empty list; its user holds every node, each unlinked
\* (Links::new()); no cursor is open.
ListInit ==
    /\ nodes = [n \in NodeIds |-> Links_new]
    /\ list = EmptyList
    /\ cursor = NoCursor
    /\ deque = <<>>
    /\ owned = NodeIds
    /\ lret = Ret("new", Null, {}, Null)
    /\ stack = Stack_new
    /\ tally = [pushes |-> 0, pops |-> 0]

NoCall == [fn |-> "none"]

\* The threads that share one LockedAlloc.
NumThreads == 2

Threads == 1..NumThreads

NoOp == [kind |-> "none", ptr |-> Null, layout |-> NoLayout]

NoSnap == [mem |-> <<>>, free_lists |-> <<>>, heap_size |-> 0, frames |-> <<>>]

\* A thread that is not in a call.
Idle == [pc |-> "idle", op |-> NoOp, snap |-> NoSnap]

\* LockedAlloc(spin::Mutex::new(heap)): unlocked, no thread in a call.
LockInit ==
    /\ mutex = Null
    /\ thr = [t \in Threads |-> Idle]

\* A heap of one frame: the frame at the base is the only free block, in the
\* free list of the frame's order.
HeapInit ==
    /\ mem = (Base :> Header(FRAME_SIZE))
    /\ free_lists = [k \in Orders |->
                        IF k = order_from_size(FRAME_SIZE)
                        THEN [head |-> Base, tail |-> Base, len |-> 1]
                        ELSE EmptyList]
    /\ heap_size = FRAME_SIZE
    /\ outstanding = {}
    /\ last = [op |-> "init", layout |-> NoLayout, ok |-> TRUE, ptr |-> Null,
               asked |-> 0, whole |-> TRUE]

Init ==
    /\ ListInit
    /\ call = NoCall
    /\ LockInit
    /\ HeapInit
    /\ frames \in FrameOrders

Install(s) ==
    /\ mem' = s.mem
    /\ free_lists' = s.free_lists
    /\ heap_size' = s.heap_size
    /\ frames' = s.frames

\* The header in a block handed to a caller is the caller's memory from then
\* on: it is no longer a header (dealloc writes a fresh one before any read).
Release(m, ptr) == [a \in DOMAIN m \ {ptr} |-> m[a]]

\* Heap::alloc(layout) run on the heap s: what it leaves in the heap.
AllocOn(s, layout) ==
    LET r == alloc(s, layout, 0)
    IN  /\ Install([r.s EXCEPT !.mem = Release(r.s.mem, r.ptr)])
        /\ outstanding' = IF r.ok
                          THEN outstanding \cup {[ptr |-> r.ptr, layout |-> layout]}
                          ELSE outstanding
        /\ last' = [op |-> "alloc", layout |-> layout, ok |-> r.ok,
                    ptr |-> r.ptr, asked |-> r.asked, whole |-> Whole]

\* A caller calls Heap::alloc(layout).
Alloc ==
    \E layout \in Layouts :
        /\ AllocOn(HeapState, layout)
        /\ UNCHANGED <<listvars, call, lockvars>>

\* Heap::dealloc(a.ptr, a.layout) run on the heap s: what it leaves in the
\* heap (block_order(layout).unwrap() panics on a layout it rejects).
DeallocOn(s, a) ==
    /\ block_order(s.heap_size, a.layout) # Err
    /\ Install(dealloc(s, a.ptr, a.layout))
    /\ outstanding' = outstanding \ {a}
    /\ last' = [op |-> "dealloc", layout |-> a.layout, ok |-> TRUE,
                ptr |-> a.ptr, asked |-> 0, whole |-> Whole]

\* A caller calls Heap::dealloc with the pointer and layout of an
\* outstanding allocation.
Dealloc ==
    \E a \in outstanding :
        /\ DeallocOn(HeapState, a)
        /\ UNCHANGED <<listvars, call, lockvars>>

\* A caller calls Heap::refill.
Refill ==
    LET r == refill(HeapState)
    IN  /\ Install(r.s)
        /\ UNCHANGED outstanding
        /\ last' = [op |-> "refill", layout |-> NoLayout, ok |-> r.ok,
                    ptr |-> Null, asked |-> 1, whole |-> Whole]
        /\ UNCHANGED <<listvars, call, lockvars>>

Next == Alloc \/ Dealloc \/ Refill

Spec == Init /\ [][Next]_vars

\* An alloc call is running: it was entered and has not returned.
Running == call.fn = "alloc"

\* A caller enters Heap::alloc(layout); the heap is borrowed mutably, so no
\* other call starts before this one returns.
AllocBegin ==
    /\ ~Running
    /\ \E layout \in Layouts :
          call' = [fn |-> "alloc", layout |-> layout, had |-> Len(frames)]
    /\ UNCHANGED <<heapvars, listvars, lockvars>>

\* The running alloc executes one activation: it returns, or it has refilled
\* the heap and calls itself.
AllocStep ==
    /\ Running
    /\ LET r == alloc_body(HeapState, call.layout)
       IN  /\ Install([r.s EXCEPT !.mem = Release(r.s.mem, r.ptr)])
           /\ outstanding' = IF r.status = "ok"
                             THEN outstanding \cup {[ptr |-> r.ptr, layout |-> call.layout]}
                             ELSE outstanding
           /\ call' = IF r.status = "again" THEN call ELSE NoCall
           /\ last' = IF r.status = "again" THEN last
                      ELSE [op |-> "alloc", layout |-> call.layout, ok |-> r.status = "ok",
                            ptr |-> r.ptr, asked |-> (call.had - Len(frames)) + r.asked,
                            whole |-> Whole]
    /\ UNCHANGED <<listvars, lockvars>>

\* Between alloc calls the callers free blocks and refill the heap.
DeallocBetween == ~Running /\ Dealloc

RefillBetween == ~Running /\ Refill

NextSteps == AllocBegin \/ AllocStep \/ DeallocBetween \/ RefillBetween

\* The provider hands out its frames one after the other from the base.
InitSteps ==
    /\ ListInit
    /\ call = NoCall
    /\ LockInit
    /\ HeapInit
    /\ frames = [i \in 1..MaxFrames |-> Base + i * FRAME_SIZE]

\* The heap with alloc taken one activation at a time.
SpecSteps == InitSteps /\ [][NextSteps]_vars

\* A call that was entered goes on executing: weak fairness of AllocStep,
\* WF_vars(AllocStep), with ENABLED <<AllocStep>>_vars written as Running
\* (the action is defined for every heap state and either ends the call or
\* takes a frame from the provider, so it is enabled exactly while a call is
\* running).
SpecStepsFair == SpecSteps /\ ([]<>(~Running) \/ []<><<AllocStep>>_vars)

\* A caller calls Heap::dealloc on an outstanding pointer with a layout that
\* block_order rejects in the heap as it is: the call panics.
DeallocRejected ==
    \E a \in outstanding, layout \in Layouts :
        LET r == dealloc_or_panic(HeapState, a.ptr, layout)
        IN  /\ r.panicked
            /\ Install(r.s)
            /\ UNCHANGED outstanding
            /\ last' = [op |-> "dealloc", layout |-> layout, ok |-> FALSE,
                        ptr |-> a.ptr, asked |-> 0, whole |-> Whole]
            /\ UNCHANGED <<listvars, call, lockvars>>

\* The heap with callers that may break dealloc's contract on the layout.
NextPanic == Next \/ DeallocRejected

SpecPanic == Init /\ [][NextPanic]_vars

\* ------------------------------------------------------------------------
\* Threads that call alloc and dealloc through one LockedAlloc<Heap>
\* ------------------------------------------------------------------------

\* A lock that is given to whoever asks.
unlocked_always(mx) == TRUE

\* spin::Mutex::lock returns only when no thread holds the mutex
unlocked(mx) == mx = Null

\* The heap of one frame behind the lock; its provider has one frame more.
InitLocked ==
    /\ ListInit
    /\ call = NoCall
    /\ LockInit
    /\ HeapInit
    /\ frames = <<Base + FRAME_SIZE>>

\* Thread t calls alloc or dealloc on the LockedAlloc: self.lock() spins.
CallLocked(t) ==
    /\ thr[t].pc = "idle"
    /\ thr' = [thr EXCEPT ![t].pc = "spinning"]
    /\ UNCHANGED <<heapvars, listvars, call, mutex>>

\* self.lock() returns the guard to thread t.
Lock(t) ==
    /\ thr[t].pc = "spinning"
    /\ unlocked(mutex)
    /\ mutex' = t
    /\ thr' = [thr EXCEPT ![t].pc = "locked"]
    /\ UNCHANGED <<heapvars, listvars, call>>

\* Thread t enters the heap's alloc or dealloc through the guard: the
\* operation starts from the heap as the thread finds it.
Enter(t) ==
    /\ thr[t].pc = "locked"
    /\ \E op \in {[kind |-> "alloc", ptr |-> Null, layout |-> l] : l \in Layouts}
                \cup {[kind |-> "dealloc", ptr |-> a.ptr, layout |-> a.layout] :
                        a \in {x \in outstanding : block_order(heap_size, x.layout) # Err}} :
        thr' = [thr EXCEPT ![t] = [pc |-> "working", op |-> op, snap |-> HeapState]]
    /\ UNCHANGED <<heapvars, listvars, call, mutex>>

\* The heap's operation returns to thread t: what it computed from the heap
\* it started from is now the heap.
Leave(t) ==
    /\ thr[t].pc = "working"
    /\ IF thr[t].op.kind = "alloc"
       THEN AllocOn(thr[t].snap, thr[t].op.layout)
       ELSE DeallocOn(thr[t].snap, [ptr |-> thr[t].op.ptr, layout |-> thr[t].op.layout])
    /\ thr' = [thr EXCEPT ![t] = [Idle EXCEPT !.pc = "done"]]
    /\ UNCHANGED <<listvars, call, mutex>>

\* The guard is dropped at the end of the statement: the mutex is unlocked.
Unlock(t) ==
    /\ thr[t].pc = "done"
    /\ mutex' = Null
    /\ thr' = [thr EXCEPT ![t] = Idle]
    /\ UNCHANGED <<heapvars, listvars, call>>

NextLocked == \E t \in Threads : CallLocked(t) \/ Lock(t) \/ Enter(t) \/ Leave(t) \/ Unlock(t)

SpecLocked == InitLocked /\ [][NextLocked]_vars

\* ------------------------------------------------------------------------
\* Properties
\* ------------------------------------------------------------------------

\* The free blocks: a block is named by its free list's order and its address.
FreeBlocks == UNION {{[order |-> k, addr |-> Blocks(k)[i]] : i \in 1..Len(Blocks(k))} : k \in Orders}

OrderSize(k) == MinBlockSize * (2 ^ k)

\* The bytes of a free block: those its size field claims and those of a
\* block of its free list's order.
FreeExtent(b) ==
    (b.addr .. (b.addr + mem[b.addr].size - 1)) \cup (b.addr .. (b.addr + OrderSize(b.order) - 1))

\* The bytes of an outstanding allocation: block_size(layout) bytes from the
\* returned address.
AllocExtent(a) == a.ptr .. (a.ptr + block_size(heap_size, a.layout) - 1)

\* Who owns a byte: the free blocks and the outstanding allocations it lies in.
Owners(byte) ==
    {b \in FreeBlocks : byte \in FreeExtent(b)} \cup {a \in outstanding : byte \in AllocExtent(a)}

HeapBytes == Base .. (Base + heap_size - 1)

\* The frames handed out so far lie one after the other from the base, so
\* that the heap's memory is [Base, Base + heap_size).
Contiguous ==
    FrameAddrs \ {frames[i] : i \in 1..Len(frames)} =
        {Base + i * FRAME_SIZE : i \in 1..((heap_size \div FRAME_SIZE) - 1)}

\* The first non-empty free list at or above order k (NumOrders if none).
RECURSIVE FirstNonEmpty(_)
FirstNonEmpty(k) ==
    IF k >= NumOrders THEN NumOrders
    ELSE IF free_lists[k].len > 0 THEN k ELSE FirstNonEmpty(k + 1)

IsPow2(n) == \E e \in 0..16 : n = 2 ^ e

\* The smallest power of two that is at least n.
RoundUp(n) == CHOOSE p \in {2 ^ e : e \in 0..16} : p >= n /\ \A q \in {2 ^ e : e \in 0..16} : q >= n => p <= q

Max(a, b) == IF a >= b THEN a ELSE b

\* A layout the allocator must reject when the heap holds hs bytes.
Rejected(layout, hs) ==
    \/ ~IsPow2(layout.align)
    \/ layout.align > FRAME_SIZE
    \/ RoundUp(Max(Max(layout.size, layout.align), MinBlockSize)) > hs

RECURSIVE SumSizes(_)
SumSizes(bs) ==
    IF bs = {} THEN 0
    ELSE LET b == CHOOSE x \in bs : TRUE
         IN  mem[b.addr].size + SumSizes(bs \ {b})

\* C1: no byte is covered twice: no two outstanding allocations overlap, no
\* two free-list blocks overlap, and no free-list block overlaps an
\* outstanding allocation.
C1_NoOverlap ==
    /\ \A a, b \in outstanding : a # b => AllocExtent(a) \cap AllocExtent(b) = {}
    /\ \A a, b \in FreeBlocks : a # b => FreeExtent(a) \cap FreeExtent(b) = {}
    /\ \A a \in outstanding, b \in FreeBlocks : AllocExtent(a) \cap FreeExtent(b) = {}

\* C1 witness: after a dealloc, two allocations are outstanding beside a
\* free block.
C1_Witness ==
    /\ last.op = "dealloc"
    /\ Cardinality(outstanding) >= 2
    /\ FreeBlocks # {}

\* C2: every byte of [base, base + heap_size) belongs to exactly one free
\* block or to exactly one outstanding allocation (here for heaps whose
\* frames lie one after the other from the base).
C2_NoByteLost ==
    Contiguous => \A byte \in HeapBytes : Cardinality(Owners(byte)) = 1

\* C3: an alloc that finds its first non-empty free list at order k above
\* min_order takes one block from free_lists[k] and adds exactly one block to
\* each of free_lists[min_order .. k-1].
C3_SplitOnAlloc ==
    [][ LET min_order == block_order(heap_size, last'.layout)
            k == FirstNonEmpty(min_order)
        IN  (last'.op = "alloc" /\ min_order # Err /\ k < NumOrders /\ k > min_order)
            => /\ last'.ok
               /\ free_lists'[k].len = free_lists[k].len - 1
               /\ \A j \in min_order..(k - 1) : free_lists'[j].len = free_lists[j].len + 1
      ]_vars

\* C4: from a heap that is one whole free block, alloc(layout) followed by
\* dealloc of the returned pointer with the same layout leaves the heap one
\* whole free block again.
C4_RoundTrip ==
    [][ (/\ last.op = "alloc" /\ last.ok /\ last.whole
         /\ last'.op = "dealloc" /\ last'.ptr = last.ptr /\ last'.layout = last.layout)
        => Whole'
      ]_vars

\* C5: every block linked in free_lists[k] has a size field equal to
\* min_block_size << k.
C5_SizeMatchesOrder ==
    \A b \in FreeBlocks : mem[b.addr].size = OrderSize(b.order)

\* C6: once every allocation has been deallocated, the sizes of all blocks in
\* all free lists add up to heap_size.
C6_FreeBytesRestored ==
    (last.op = "dealloc" /\ outstanding = {}) => SumSizes(FreeBlocks) = heap_size

\* C7: the address a successful alloc returns is a multiple of the layout's
\* alignment.
C7_Aligned ==
    (last.op = "alloc" /\ last.ok) => last.ptr % last.layout.align = 0

\* C7 witness: an alloc with an alignment above one succeeded in a frame it
\* had to ask the provider for.
C7_Witness ==
    /\ last.op = "alloc" /\ last.ok
    /\ last.layout.align > 1
    /\ last.asked = 1
    /\ last.ptr # Base

\* C8: an alloc with a valid layout that finds no block at or above
\* min_order asks the frame provider for exactly one frame, succeeds if the
\* provider supplies it and fails if the provider is exhausted.
C8_OneFramePerAlloc ==
    [][ LET min_order == block_order(heap_size, last'.layout)
        IN  (last'.op = "alloc" /\ min_order # Err /\ FirstNonEmpty(min_order) = NumOrders)
            => /\ last'.asked = 1
               /\ last'.ok = (frames # <<>>)
               /\ Len(frames') = (IF frames = <<>> THEN 0 ELSE Len(frames) - 1)
      ]_vars

\* C9: an alloc whose layout is rejected (alignment not a power of two,
\* alignment above FRAME_SIZE, or rounded size above heap_size) returns an
\* error, leaves every free list, heap_size and memory unchanged and asks the
\* frame provider for nothing.
C9_RejectedLeavesHeap ==
    [][ (last'.op = "alloc" /\ Rejected(last'.layout, heap_size))
        => /\ ~last'.ok
           /\ last'.asked = 0
           /\ UNCHANGED <<mem, free_lists, heap_size, frames, outstanding>>
      ]_vars

\* C9 witness: an alloc was rejected while a block was free, an allocation
\* outstanding and a frame left in the provider.
C9_Witness ==
    /\ last.op = "alloc" /\ ~last.ok
    /\ Rejected(last.layout, heap_size)
    /\ FreeBlocks # {}
    /\ outstanding # {}
    /\ frames # <<>>

\* C10: heap_size is a power of two.
C10_HeapSizePow2 == IsPow2(heap_size)

\* C11: every header linked in a free list has a size field that is a power
\* of two and at least min_block_size.
C11_SizePow2AtLeastMin ==
    \A b \in FreeBlocks : IsPow2(mem[b.addr].size) /\ mem[b.addr].size >= MinBlockSize

\* Two outstanding allocations of the same order whose blocks are buddies.
BuddyPairs ==
    {<<a, b>> \in outstanding \X outstanding :
        /\ a # b
        /\ block_order(heap_size, a.layout) = block_order(heap_size, b.layout)
        /\ get_buddy(HeapState, a.ptr, block_order(heap_size, a.layout)) = b.ptr}

\* The heap after dealloc(a) then dealloc(b).
DeallocBoth(a, b) == dealloc(dealloc(HeapState, a.ptr, a.layout), b.ptr, b.layout)

\* The nodes of free list k of heap s.
BlocksOf(s, k) == Traverse(s.mem, s.free_lists[k].head, MaxFrames + 2)

\* C12: deallocating two outstanding buddy blocks in either order ends in
\* the same heap state, whose free list of the blocks' order holds the merged
\* block at the lower address, with the two sizes added, and no longer the
\* block at the higher address.
C12_MergeOrderIndependent ==
    \A p \in BuddyPairs :
        LET a  == p[1]
            b  == p[2]
            k  == block_order(heap_size, a.layout)
            lo == IF a.ptr <= b.ptr THEN a.ptr ELSE b.ptr
            hi == IF a.ptr <= b.ptr THEN b.ptr ELSE a.ptr
            s  == DeallocBoth(a, b)
        IN  /\ s = DeallocBoth(b, a)
            /\ BlocksOf(s, k)[1] = lo
            /\ \A i \in 1..Len(BlocksOf(s, k)) : BlocksOf(s, k)[i] # hi
            /\ s.mem[lo].size = a.layout.size + b.layout.size

\* C12 witness: two buddy blocks are outstanding while another block is free
\* in the list of their order.
C12_Witness ==
    \E p \in BuddyPairs : free_lists[block_order(heap_size, p[1].layout)].len > 0

\* ------------------------------------------------------------------------
\* The pure functions, applied to inputs drawn from bounded sets
\* ------------------------------------------------------------------------

\* The largest size and alignment of the layouts block_size is applied to.
MaxArg == 17

\* The heap sizes block_size is applied with: one frame and more.
HeapSizes == {n * FRAME_SIZE : n \in 1..(MaxFrames + 1)}

\* The heap is not used while the pure functions are applied.
HeapParked ==
    /\ mem = <<>>
    /\ free_lists = [k \in Orders |-> EmptyList]
    /\ heap_size = 0
    /\ frames = <<>>
    /\ outstanding = {}
    /\ last = [op |-> "init", layout |-> NoLayout, ok |-> TRUE, ptr |-> Null,
               asked |-> 0, whole |-> FALSE]

InitPure == HeapParked /\ ListInit /\ call = NoCall /\ LockInit

\* Heap::block_size(layout) on a heap of hs bytes.
CallBlockSize ==
    \E hs \in HeapSizes, size \in 0..MaxArg, align \in 0..MaxArg :
        /\ call' = [fn |-> "block_size", hs |-> hs, layout |-> Layout(size, align),
                    result |-> block_size(hs, Layout(size, align))]
        /\ UNCHANGED <<heapvars, listvars, lockvars>>

\* A heap of hs bytes, for the functions that read only heap_size.
HeapOf(hs) == [HeapState EXCEPT !.heap_size = hs]

\* Heap::get_buddy(block, order) on a heap of hs bytes, for every block
\* address in the heap, and again on the buddy it returned.
CallGetBuddy ==
    \E hs \in HeapSizes, order \in Orders, off \in 0..(FRAME_SIZE * (MaxFrames + 1) - 1) :
        /\ off < hs
        /\ LET buddy == get_buddy(HeapOf(hs), Base + off, order)
           IN  call' = [fn |-> "get_buddy", hs |-> hs, block |-> Base + off,
                        order |-> order, result |-> buddy,
                        back |-> IF buddy = Null THEN Null
                                 ELSE get_buddy(HeapOf(hs), buddy, order)]
        /\ UNCHANGED <<heapvars, listvars, lockvars>>

\* The sizes of the blocks that can be split.
SplitSizes == {MinBlockSize * (2 ^ k) : k \in 1..(NumOrders - 1)}

\* FreeBlock::split(block) on a free block of `size` bytes whose offset from
\* the base is a multiple of its size, in a heap of hs bytes.
CallSplit ==
    \E hs \in HeapSizes, size \in SplitSizes, n \in 0..(MaxFrames + 1) :
        /\ (n + 1) * size <= hs
        /\ LET block == Base + n * size
               r     == split(block :> Header(size), block)
           IN  call' = [fn |-> "split", hs |-> hs, block |-> block, size |-> size,
                        mem |-> r.mem, result |-> r.split]
        /\ UNCHANGED <<heapvars, listvars, lockvars>>

\* Every value from 1 up to this one is handed to log2.
MaxLog2Arg == 300

\* The values log2 is applied to: the small ones, and every power of two of
\* the model's integers with its two neighbours.
Log2Args == (1..MaxLog2Arg) \cup {2 ^ k + d : k \in 1..30, d \in {-1, 0, 1}}

\* Log2::log2(v)
CallLog2 ==
    \E v \in Log2Args :
        /\ call' = [fn |-> "log2", v |-> v, result |-> Log2(v)]
        /\ UNCHANGED <<heapvars, listvars, lockvars>>

NextPure == CallBlockSize \/ CallGetBuddy \/ CallSplit \/ CallLog2

SpecPure == InitPure /\ [][NextPure]_vars

\* ------------------------------------------------------------------------
\* The list on its own: a user with MaxNodes nodes, a list and its CursorMut
\* ------------------------------------------------------------------------

InitList == HeapParked /\ ListInit /\ call = NoCall /\ LockInit

\* The abstract sequence's operations.
IndexOf(seq, x) == IF \E i \in 1..Len(seq) : seq[i] = x
                   THEN CHOOSE i \in 1..Len(seq) : seq[i] = x
                   ELSE 0

DeleteAt(seq, i) == IF i \in 1..Len(seq)
                    THEN SubSeq(seq, 1, i - 1) \o SubSeq(seq, i + 1, Len(seq))
                    ELSE seq

InsertAt(seq, i, x) == SubSeq(seq, 1, i - 1) \o <<x>> \o SubSeq(seq, i, Len(seq))

\* The first index at or after `from` (an index, 0 for none) whose element
\* satisfies pred; 0 if there is none.
FirstMatch(seq, from, pred) ==
    LET js == {j \in 1..Len(seq) : from >= 1 /\ j >= from /\ seq[j] \in pred}
    IN  IF js = {} THEN 0 ELSE CHOOSE j \in js : \A k \in js : j <= k

\* The user gives up a node to the list / gets a node back.
Give(n) == owned' = owned \ {n}

TakeBack(n) == owned' = IF n = Null THEN owned ELSE owned \cup {n}

PushFront ==
    /\ ~cursor.open
    /\ \E n \in owned :
        LET r == push_front_node(nodes, list, n)
        IN  /\ nodes' = r.mem
            /\ list' = r.list
            /\ Give(n)
            /\ deque' = <<n>> \o deque
            /\ lret' = Ret("push_front_node", n, {}, Null)
    /\ UNCHANGED <<cursor, heapvars, call, lockvars, stack, tally>>

PushBack ==
    /\ ~cursor.open
    /\ \E n \in owned :
        LET r == push_back_node(nodes, list, n)
        IN  /\ nodes' = r.mem
            /\ list' = r.list
            /\ Give(n)
            /\ deque' = Append(deque, n)
            /\ lret' = Ret("push_back_node", n, {}, Null)
    /\ UNCHANGED <<cursor, heapvars, call, lockvars, stack, tally>>

PopFront ==
    /\ ~cursor.open
    /\ LET r == pop_front_node(nodes, list)
       IN  /\ nodes' = r.mem
           /\ list' = r.list
           /\ TakeBack(r.node)
           /\ deque' = DeleteAt(deque, 1)
           /\ lret' = Ret("pop_front_node", Null, {}, r.node)
    /\ UNCHANGED <<cursor, heapvars, call, lockvars, stack, tally>>

PopBack ==
    /\ ~cursor.open
    /\ LET r == pop_back_node(nodes, list)
       IN  /\ nodes' = r.mem
           /\ list' = r.list
           /\ TakeBack(r.node)
           /\ deque' = DeleteAt(deque, Len(deque))
           /\ lret' = Ret("pop_back_node", Null, {}, r.node)
    /\ UNCHANGED <<cursor, heapvars, call, lockvars, stack, tally>>

HeadOf ==
    /\ ~cursor.open
    /\ lret' = Ret("head", Null, {}, head(list))
    /\ UNCHANGED <<nodes, list, cursor, deque, owned, heapvars, call, lockvars, stack, tally>>

TailOf ==
    /\ ~cursor.open
    /\ lret' = Ret("tail", Null, {}, tail(list))
    /\ UNCHANGED <<nodes, list, cursor, deque, owned, heapvars, call, lockvars, stack, tally>>

OpenCursor ==
    /\ ~cursor.open
    /\ cursor' = [open |-> TRUE, current |-> cursor_mut(list)]
    /\ lret' = Ret("cursor_mut", Null, {}, Null)
    /\ UNCHANGED <<nodes, list, deque, owned, heapvars, call, lockvars, stack, tally>>

DropCursor ==
    /\ cursor.open
    /\ cursor' = NoCursor
    /\ lret' = Ret("drop", Null, {}, Null)
    /\ UNCHANGED <<nodes, list, deque, owned, heapvars, call, lockvars, stack, tally>>

Get ==
    /\ cursor.open
    /\ lret' = Ret("get", Null, {}, get(cursor.current))
    /\ UNCHANGED <<nodes, list, cursor, deque, owned, heapvars, call, lockvars, stack, tally>>

MoveForward ==
    /\ cursor.open
    /\ cursor' = [cursor EXCEPT !.current = move_forward(nodes, cursor.current)]
    /\ lret' = Ret("move_forward", Null, {}, Null)
    /\ UNCHANGED <<nodes, list, deque, owned, heapvars, call, lockvars, stack, tally>>

MoveBack ==
    /\ cursor.open
    /\ cursor' = [cursor EXCEPT !.current = move_back(nodes, cursor.current)]
    /\ lret' = Ret("move_back", Null, {}, Null)
    /\ UNCHANGED <<nodes, list, deque, owned, heapvars, call, lockvars, stack, tally>>

RemoveNode ==
    /\ cursor.open
    /\ LET r == remove_node(nodes, list, cursor.current)
       IN  /\ nodes' = r.mem
           /\ list' = r.list
           /\ cursor' = [cursor EXCEPT !.current = r.current]
           /\ TakeBack(r.node)
           /\ deque' = DeleteAt(deque, IndexOf(deque, cursor.current))
           /\ lret' = Ret("remove_node", Null, {}, r.node)
    /\ UNCHANGED <<heapvars, call, lockvars, stack, tally>>

RemoveFirstNode ==
    /\ cursor.open
    /\ \E pred \in SUBSET NodeIds :
        LET r == remove_first_node(nodes, list, cursor.current, pred)
        IN  /\ nodes' = r.mem
            /\ list' = r.list
            /\ cursor' = [cursor EXCEPT !.current = r.current]
            /\ TakeBack(r.node)
            /\ deque' = DeleteAt(deque, FirstMatch(deque, IndexOf(deque, cursor.current), pred))
            /\ lret' = Ret("remove_first_node", Null, pred, r.node)
    /\ UNCHANGED <<heapvars, call, lockvars, stack, tally>>

\* The elements of seq that satisfy pred, from index `from` on (none if
\* from is 0), and seq without them.
Matching(seq, from, pred) ==
    LET F(i) == from >= 1 /\ i >= from /\ seq[i] \in pred
        RECURSIVE Pick(_, _)
        Pick(i, keep) == IF i > Len(seq) THEN <<>>
                         ELSE (IF F(i) = keep THEN <<seq[i]>> ELSE <<>>) \o Pick(i + 1, keep)
    IN  [removed |-> Pick(1, TRUE), kept |-> Pick(1, FALSE)]

Elems(seq) == {seq[i] : i \in 1..Len(seq)}

RemoveAllNodes ==
    /\ cursor.open
    /\ \E pred \in SUBSET NodeIds :
        LET r == remove_all_nodes(nodes, list, cursor.current, pred)
        IN  /\ nodes' = r.mem
            /\ list' = r.list
            /\ cursor' = [cursor EXCEPT !.current = r.current]
            /\ owned' = owned \cup Elems(r.items)
            /\ deque' = Matching(deque, IndexOf(deque, cursor.current), pred).kept
            /\ lret' = [Ret("remove_all_nodes", Null, pred, Null) EXCEPT !.items = r.items]
    /\ UNCHANGED <<heapvars, call, lockvars, stack, tally>>

\* The abstract sequence takes the node at the cursor's index (before) or
\* after it; with the cursor on nothing it takes it at the back.
InsertBefore ==
    /\ cursor.open
    /\ \E n \in owned :
        LET r == insert_node_before(nodes, list, cursor.current, n)
            i == IndexOf(deque, cursor.current)
        IN  /\ nodes' = r.mem
            /\ list' = r.list
            /\ cursor' = [cursor EXCEPT !.current = r.current]
            /\ Give(n)
            /\ deque' = IF i = 0 THEN Append(deque, n) ELSE InsertAt(deque, i, n)
            /\ lret' = Ret("insert_node_before", n, {}, Null)
    /\ UNCHANGED <<heapvars, call, lockvars, stack, tally>>

InsertAfter ==
    /\ cursor.open
    /\ \E n \in owned :
        LET r == insert_node_after(nodes, list, cursor.current, n)
            i == IndexOf(deque, cursor.current)
        IN  /\ nodes' = r.mem
            /\ list' = r.list
            /\ cursor' = [cursor EXCEPT !.current = r.current]
            /\ Give(n)
            /\ deque' = IF i = 0 THEN Append(deque, n) ELSE InsertAt(deque, i + 1, n)
            /\ lret' = Ret("insert_node_after", n, {}, Null)
    /\ UNCHANGED <<heapvars, call, lockvars, stack, tally>>

\* Pushes, pops, reads, and a cursor that moves and removes.
NextList ==
    \/ PushFront \/ PushBack \/ PopFront \/ PopBack \/ HeadOf \/ TailOf
    \/ OpenCursor \/ DropCursor \/ Get \/ MoveForward \/ MoveBack
    \/ RemoveNode \/ RemoveFirstNode \/ RemoveAllNodes

SpecList == InitList /\ [][NextList]_vars

\* The user of a node it holds writes the node's links (links_mut): here both
\* are set to some node, as a stale or foreign pointer would be.
Scribble ==
    \E n \in owned, x \in NodeIds :
        /\ nodes[n] = Links_new
        /\ nodes' = [nodes EXCEPT ![n].next = x, ![n].prev = x]
        /\ lret' = Ret("links_mut", n, {}, Null)
        /\ UNCHANGED <<list, cursor, deque, owned, heapvars, call, lockvars, stack, tally>>

\* A list whose user pushes, pops and removes nodes, and may leave any links
\* in the nodes it holds.
NextDetach ==
    \/ PushFront \/ PushBack \/ PopFront \/ PopBack
    \/ OpenCursor \/ DropCursor \/ MoveForward \/ MoveBack \/ RemoveNode
    \/ Scribble

SpecDetach == InitList /\ [][NextDetach]_vars

\* The list refers to a node it has handed back to its user: a dangling
\* reference (the user may have freed the node), whose use is undefined.
Dangling ==
    \E n \in owned :
        \/ list.head = n \/ list.tail = n \/ cursor.current = n
        \/ \E k \in NodeIds \ owned : nodes[k].next = n \/ nodes[k].prev = n

\* The user holds a node that the abstract sequence still has: the list
\* handed back another node than the sequence did, and the node cannot be
\* given to the sequence again.
Lost == \E i \in 1..Len(deque) : deque[i] \in owned

\* The same with a cursor that inserts as well, followed for as long as the
\* list holds no dangling reference and its user no node of the sequence.
NextCursor == ~Dangling /\ ~Lost /\ (NextList \/ InsertBefore \/ InsertAfter)

SpecCursor == InitList /\ [][NextCursor]_vars

\* A list is built by push_back_node, before any cursor is made on it.
Build == lret.op \in {"new", "push_back_node"} /\ PushBack

Walk == OpenCursor \/ DropCursor \/ Get \/ MoveForward \/ MoveBack

\* A built list and cursors that walk it and insert before their position.
NextInsertBefore == Build \/ Walk \/ InsertBefore

SpecInsertBefore == InitList /\ [][NextInsertBefore]_vars

\* A built list and cursors that walk it and insert after their position.
NextInsertAfter == Build \/ Walk \/ InsertAfter

SpecInsertAfter == InitList /\ [][NextInsertAfter]_vars

\* list.cursor() used as an iterator to its end.
Collect ==
    /\ ~cursor.open
    /\ lret' = [Ret("collect", Null, {}, Null) EXCEPT !.items = collect(nodes, cursor_at(list))]
    /\ UNCHANGED <<nodes, list, cursor, deque, owned, heapvars, call, lockvars, stack, tally>>

\* A built list and cursors that walk it.
NextWalk == Build \/ Walk \/ Collect

SpecWalk == InitList /\ [][NextWalk]_vars

\* ------------------------------------------------------------------------
\* The stack on its own: a user with MaxNodes nodes and a Stack
\* ------------------------------------------------------------------------

\* The number of pushes the stack's user makes.
MaxPushes == 4

PushNode ==
    \E n \in owned :
        LET r == push_node(nodes, stack, n)
        IN  /\ tally.pushes < MaxPushes
            /\ tally' = [tally EXCEPT !.pushes = @ + 1]
            /\ nodes' = r.mem
            /\ stack' = r.stack
            /\ Give(n)
            /\ deque' = <<n>> \o deque
            /\ lret' = Ret("push_node", n, {}, Null)
            /\ UNCHANGED <<list, cursor, heapvars, call, lockvars>>

PopNode ==
    LET r == pop_node(nodes, stack)
    IN  /\ tally' = [tally EXCEPT !.pops = IF r.node = Null THEN @ ELSE @ + 1]
        /\ nodes' = r.mem
        /\ stack' = r.stack
        /\ TakeBack(r.node)
        /\ deque' = DeleteAt(deque, 1)
        /\ lret' = Ret("pop_node", Null, {}, r.node)
        /\ UNCHANGED <<list, cursor, heapvars, call, lockvars>>

Peek ==
    /\ lret' = Ret("peek", Null, {}, peek(stack))
    /\ UNCHANGED <<nodes, stack, tally, list, cursor, deque, owned, heapvars, call, lockvars>>

NextStack == PushNode \/ PopNode \/ Peek

SpecStack == InitList /\ [][NextStack]_vars

\* The list's nodes, by forward traversal from head.
Forward == Traverse(nodes, list.head, MaxNodes + 1)

\* The nodes linked in the list: those its user does not hold.
Linked == NodeIds \ owned

\* C13: block_size returns an error exactly when the alignment is not a
\* power of two, or is above FRAME_SIZE, or the rounded size is above
\* heap_size; otherwise it returns the smallest power of two that is at least
\* max(layout.size, layout.align, min_block_size).
C13_BlockSize ==
    call.fn = "block_size" =>
        IF Rejected(call.layout, call.hs)
        THEN call.result = Err
        ELSE call.result = RoundUp(Max(Max(call.layout.size, call.layout.align), MinBlockSize))

\* C13 witness: block_size rounded a size that is not a power of two, above
\* its alignment and above min_block_size, up to the heap's size.
C13_Witness ==
    /\ call.fn = "block_size"
    /\ call.result = call.hs
    /\ ~IsPow2(call.layout.size)
    /\ call.layout.size > call.layout.align
    /\ call.layout.align > 1

\* Why the allocator must refuse alloc(layout) in the current heap state, by
\* the rules of the error taxonomy ("none" if it must not refuse).
Cause(layout) ==
    IF ~IsPow2(layout.align) \/ layout.align > FRAME_SIZE THEN "UnsupportedAlignment"
    ELSE IF Rejected(layout, heap_size) THEN "UnsupportedSize"
    ELSE IF ~alloc(HeapState, layout, 0).ok THEN "FrameExhausted"
    ELSE "none"

\* C14: allocation failures of different kinds (unsupported alignment,
\* unsupported size, frames exhausted) are reported as different error values.
C14_DistinctErrors ==
    \A l1, l2 \in Layouts :
        (Cause(l1) # "none" /\ Cause(l2) # "none" /\ Cause(l1) # Cause(l2))
            => alloc(HeapState, l1, 0).err # alloc(HeapState, l2, 0).err

\* The boundary conditions of the list: a list that has nodes has a head
\* with no prev and a tail with no next.
Boundaries ==
    list.len > 0 =>
        /\ list.head # Null /\ nodes[list.head].prev = Null
        /\ list.tail # Null /\ nodes[list.tail].next = Null

\* len is the number of nodes reached by forward traversal from head.
LenIsCount == list.len = Len(Forward)

\* C15: after any sequence of push_front_node, push_back_node,
\* pop_front_node and pop_back_node the structural invariant holds: head has
\* no prev and tail no next, n.next.prev = n and n.prev.next = n for every
\* node that has a next or a prev, and len is the number of nodes reached by
\* forward traversal from head.
C15_Structure ==
    /\ Boundaries
    /\ \A n \in NodeIds :
        /\ nodes[n].next # Null => nodes[nodes[n].next].prev = n
        /\ nodes[n].prev # Null => nodes[nodes[n].prev].next = n
    /\ LenIsCount

\* C15 witness: a pop at the back left a list of two nodes or more, whose
\* head has a next and whose tail has a prev.
C15_Witness ==
    /\ lret.op = "pop_back_node" /\ lret.node # Null
    /\ list.len >= 2
    /\ nodes[list.head].next # Null
    /\ nodes[list.tail].prev # Null

\* C16: after any sequence of pushes, pops and cursor operations
\* (move_forward, move_back, remove_node, insert_node_before,
\* insert_node_after, wherever the cursor is), len is the number of nodes
\* reached by forward traversal from head, head has no prev and tail no next.
C16_CursorStructure == LenIsCount /\ Boundaries

\* The first and the last element of a sequence, Null for none.
First(seq) == IF seq = <<>> THEN Null ELSE seq[1]

Last(seq) == IF seq = <<>> THEN Null ELSE seq[Len(seq)]

\* C17: the List refines a double-ended queue: after every operation the
\* forward traversal is the abstract sequence to which the same operations
\* were applied, head() and tail() are its first and last elements, and a pop
\* returns the element the abstract deque removes from that end.
C17_RefinesDeque ==
    [][ /\ Forward' = deque'
        /\ head(list') = First(deque')
        /\ tail(list') = Last(deque')
        /\ lret'.op = "pop_front_node" => lret'.node = First(deque)
        /\ lret'.op = "pop_back_node" => lret'.node = Last(deque)
      ]_vars

\* C17 witness: a pop at the front returned a node and left two nodes or
\* more, not in the order of their names.
C17_Witness ==
    /\ lret.op = "pop_front_node" /\ lret.node # Null
    /\ Len(deque) >= 2
    /\ deque[1] > deque[2]

\* The calls that hand back a node or nothing.
Returning == {"pop_front_node", "pop_back_node", "head", "tail", "get",
              "remove_node", "remove_first_node"}

\* C18: on an empty List, pop_front_node, pop_back_node, head, tail, the
\* cursor's get, CursorMut::remove_node and remove_first_node return no
\* element and leave the list unchanged (len 0, head and tail empty).
C18_EmptyList ==
    [][ (list = EmptyList /\ lret'.op \in Returning)
        => /\ lret'.node = Null
           /\ list' = EmptyList
           /\ nodes' = nodes
           /\ owned' = owned
      ]_vars

\* C18 witness: remove_first_node with a predicate that accepts some node
\* was called on the cursor of an empty list.
C18_Witness ==
    /\ list = EmptyList
    /\ cursor.open
    /\ lret.op = "remove_first_node" /\ lret.pred # {}

\* C19: CursorMut::remove_node with the cursor on the element at index i of a
\* list of n elements returns that element, leaves the forward traversal
\* equal to the original with index i deleted, decreases len by one, updates
\* head when i = 1 and tail when i = n (indices from 1), and leaves the cursor
\* on the element that followed (on nothing when the tail was removed).
C19_RemoveNode ==
    [][ (lret'.op = "remove_node" /\ cursor.current # Null)
        => LET i == IndexOf(Forward, cursor.current)
               n == Len(Forward)
           IN  /\ i >= 1
               /\ lret'.node = Forward[i]
               /\ Forward' = DeleteAt(Forward, i)
               /\ list'.len = list.len - 1
               /\ list'.head = IF i > 1 THEN list.head ELSE IF n > 1 THEN Forward[2] ELSE Null
               /\ list'.tail = IF i < n THEN list.tail ELSE IF n > 1 THEN Forward[n - 1] ELSE Null
               /\ cursor'.current = IF i < n THEN Forward[i + 1] ELSE Null
      ]_vars

\* C19 witness: remove_node removed the tail of a list of three nodes or
\* more, leaving the cursor on nothing.
C19_Witness ==
    /\ lret.op = "remove_node" /\ lret.node # Null
    /\ cursor.open /\ cursor.current = Null
    /\ list.len >= 2

\* C20: remove_first_node(p) on a fresh cursor_mut() removes and returns the
\* first element in list order that satisfies p, the others keeping their
\* order and len going down by one; when no element satisfies p it returns
\* none and the list's contents and len are unchanged.
C20_RemoveFirstNode ==
    [][ (lret.op = "cursor_mut" /\ lret'.op = "remove_first_node")
        => LET j == FirstMatch(Forward, 1, lret'.pred)
           IN  IF j = 0
               THEN lret'.node = Null /\ Forward' = Forward /\ list' = list
               ELSE /\ lret'.node = Forward[j]
                    /\ Forward' = DeleteAt(Forward, j)
                    /\ list'.len = list.len - 1
      ]_vars

\* C20 witness: remove_first_node removed a node that was not the head, and
\* a later node that satisfies the predicate is still in the list.
C20_Witness ==
    /\ lret.op = "remove_first_node" /\ lret.node # Null
    /\ list.head # Null /\ list.head \notin lret.pred
    /\ cursor.current # Null /\ cursor.current \in lret.pred

\* C21: remove_all_nodes(p) on a fresh cursor_mut() removes exactly the
\* elements that satisfy p: the returned collection holds them in list order,
\* the list afterwards holds the others in their original order, and len
\* goes down by the number removed.
C21_RemoveAllNodes ==
    [][ (lret.op = "cursor_mut" /\ lret'.op = "remove_all_nodes")
        => LET x == Matching(Forward, 1, lret'.pred)
           IN  /\ lret'.items = x.removed
               /\ Forward' = x.kept
               /\ list'.len = list.len - Len(x.removed)
      ]_vars

\* C21 witness: remove_all_nodes returned two nodes that were not next to
\* each other and left a node that was between them.
C21_Witness ==
    /\ lret.op = "remove_all_nodes"
    /\ Len(lret.items) = 2
    /\ list.len = 1
    /\ nodes[list.head].next = Null
    /\ cursor.current = Null
    /\ lret.pred = {lret.items[1], lret.items[2]}

\* C22: insert_node_before with the cursor on the element at index i makes
\* the forward traversal the original with the new node inserted at index i
\* and raises len by one; so it is for every insertion of a series, each made
\* through a new cursor.
C22_InsertBefore ==
    [][ (lret'.op = "insert_node_before" /\ IndexOf(Forward, cursor.current) >= 1)
        => /\ Forward' = InsertAt(Forward, IndexOf(Forward, cursor.current), lret'.arg)
           /\ list'.len = list.len + 1
      ]_vars

\* C22 witness: a node was inserted in the middle of a list, before the
\* list's last node.
C22_Witness ==
    /\ lret.op = "insert_node_before"
    /\ list.len = 3 /\ Len(Forward) = 3
    /\ Forward[2] = lret.arg
    /\ cursor.current = lret.arg

C24_CursorYields ==
    [][ /\ lret'.op = "collect" => lret'.items = deque
        /\ (cursor.open /\ cursor.current = Null /\ lret'.op \in {"move_forward", "move_back"})
            => cursor'.current = Null
        /\ (cursor.open /\ lret'.op = "get") => lret'.node = cursor.current
      ]_vars

\* C24 witness: a cursor yielded the three nodes of a list that was not
\* built in the order of the nodes' names.
C24_Witness ==
    /\ lret.op = "collect"
    /\ Len(lret.items) = 3
    /\ lret.items[1] > lret.items[2]

\* A thread is in the allocator: between lock() and the drop of the guard.
Inside(t) == thr[t].pc \in {"locked", "working", "done"}

\* C25: calls of alloc and dealloc made by several threads through one
\* LockedAlloc are serialized: a thread is in the allocator only while it
\* holds the mutex, the heap an operation started from is still the heap when
\* it returns, and every change of the heap is one whole alloc or dealloc
\* made on the heap as it was, so the final heap is that of the calls made
\* one after the other in some order.
C25_Serialized ==
    [][ /\ \A t \in Threads : Inside(t)' => mutex' = t
        /\ \A t \in Threads : thr[t].pc = "working" => thr[t].snap = HeapState
        /\ heapvars' # heapvars
            => \/ \E layout \in Layouts : AllocOn(HeapState, layout)
               \/ \E a \in outstanding : DeallocOn(HeapState, a)
      ]_vars

\* C25 witness: a thread is in a dealloc while another spins on the lock, and
\* an allocation is outstanding beside the one being freed.
C25_Witness ==
    \E t, u \in Threads :
        /\ thr[t].pc = "working" /\ thr[t].op.kind = "dealloc"
        /\ thr[u].pc = "spinning"
        /\ Cardinality(outstanding) >= 2

\* C26: the Stack is last-in first-out: pop_node returns the most recently
\* pushed node not yet popped, peek shows that node without removing it, len
\* is the number of pushes less the successful pops, and pop_node on an empty
\* stack returns none.
C26_StackLifo ==
    [][ /\ lret'.op = "pop_node"
            => /\ lret'.node = First(deque)
               /\ deque = <<>> => stack' = stack
        /\ lret'.op = "peek"
            => /\ lret'.node = First(deque)
               /\ stack' = stack /\ nodes' = nodes
        /\ stack'.len = tally'.pushes - tally'.pops
      ]_vars

\* C26 witness: a pop returned a node and left two nodes on the stack, the
\* later pushed on top, not in the order of their names.
C26_Witness ==
    /\ lret.op = "pop_node" /\ lret.node # Null
    /\ stack.len = 2
    /\ nodes[stack.top].next # Null
    /\ stack.top < nodes[stack.top].next

\* The heap s after n successful refills.
RECURSIVE RefillN(_, _)
RefillN(s, n) == IF n = 0 THEN s ELSE RefillN(refill(s).s, n - 1)

\* The first non-empty free list of s at or above order k (NumOrders if none).
RECURSIVE FirstNonEmptyIn(_, _)
FirstNonEmptyIn(s, k) ==
    IF k >= NumOrders THEN NumOrders
    ELSE IF s.free_lists[k].len > 0 THEN k ELSE FirstNonEmptyIn(s, k + 1)

\* C27: a successful alloc takes the block at the front of the lowest-order
\* non-empty free list at or above min_order (of the heap as refilled, if it
\* had to be), and leaves the free lists below min_order and above that order
\* as they were.
C27_LowestOrderFront ==
    [][ (last'.op = "alloc" /\ last'.ok)
        => LET s  == RefillN(HeapState, last'.asked)
               mo == block_order(s.heap_size, last'.layout)
               k  == FirstNonEmptyIn(s, mo)
           IN  /\ k < NumOrders
               /\ last'.ptr = s.free_lists[k].head
               /\ \A j \in Orders :
                    (j < mo \/ j > k)
                        => /\ free_lists'[j] = s.free_lists[j]
                           /\ BlocksOf(HeapState', j) = BlocksOf(s, j)
      ]_vars

\* C27 witness: an alloc that needed no refill succeeded while a free list
\* below its min_order and a free list above it held blocks.
C27_Witness ==
    /\ last.op = "alloc" /\ last.ok /\ last.asked = 0
    /\ \E i, j \in Orders :
        /\ i < block_order(heap_size, last.layout) /\ free_lists[i].len > 0
        /\ j > block_order(heap_size, last.layout) /\ free_lists[j].len > 0

\* The blocks linked in the free list of order k, as a set.
Linked_at(k) == {Blocks(k)[i] : i \in 1..Len(Blocks(k))}

\* No order holds both a block and the block's buddy in its free list.
NoBuddyPair ==
    \A k \in Orders : \A b \in Linked_at(k) :
        get_buddy(HeapState, b, k) \notin Linked_at(k)

\* A dealloc that found the buddy of its block in the free list of the
\* block's order links the merged block at a higher order, and not at the
\* order it started from.
MergeRaisesOrder ==
    \A a \in outstanding :
        (last'.op = "dealloc" /\ outstanding' = outstanding \ {a})
            => LET order  == block_order(heap_size, a.layout)
                   buddy  == get_buddy(HeapState, a.ptr, order)
                   merged == IF a.ptr <= buddy THEN a.ptr ELSE buddy
               IN  (buddy # Null /\ buddy \in Linked_at(order))
                      => /\ merged \notin Linked_at(order)'
                         /\ \E k \in Orders : k > order /\ merged \in Linked_at(k)'

\* C28: dealloc coalesces as far as possible: every successful merge raises
\* the block's order by one, and when a dealloc has returned no order holds
\* both a block and its buddy in its free list.
C28_Coalesces ==
    [][ last'.op = "dealloc" => (MergeRaisesOrder /\ NoBuddyPair') ]_vars

\* The first half of C28 alone.
C28_OrderRaised == [][MergeRaisesOrder]_vars

\* The second half of C28 alone.
C28_NoPairAfterDealloc == last.op = "dealloc" => NoBuddyPair

\* C29: split of a block at A with size S leaves the header at A with size
\* S/2 and writes the new header at A + S/2 with size S/2; the address it
\* returns is get_buddy(A, order of S/2).
C29_SplitHalves ==
    call.fn = "split" =>
        LET A == call.block
            half == call.size \div 2
        IN  /\ call.mem[A].size = half
            /\ call.result = A + half
            /\ call.result \in DOMAIN call.mem
            /\ call.mem[call.result].size = half
            /\ get_buddy(HeapOf(call.hs), A, order_from_size(half)) = call.result

\* C30: get_buddy returns none exactly when min_block_size << order equals
\* heap_size, and otherwise base + ((block - base) XOR (min_block_size <<
\* order)); on a block whose offset from base is a multiple of its size the
\* buddy is the neighbour one size above (even multiple) or below (odd
\* multiple), it differs from the block, and its buddy is the block again.
C30_GetBuddy ==
    call.fn = "get_buddy" =>
        LET size == MinBlockSize * (2 ^ call.order)
            off  == call.block - Base
        IN  /\ call.result = Null <=> size = call.hs
            /\ call.result # Null =>
                 /\ call.result = Base + BitXor(off, size)
                 /\ off % size = 0 =>
                      /\ call.result = (IF (off \div size) % 2 = 0
                                        THEN call.block + size ELSE call.block - size)
                      /\ call.result # call.block
                      /\ call.back = call.block

\* C30 witness: get_buddy returned the lower neighbour of a block at an odd
\* multiple of its size, and that neighbour's buddy was the block.
C30_Witness ==
    /\ call.fn = "get_buddy"
    /\ call.order > 0
    /\ (call.block - Base) % (MinBlockSize * (2 ^ call.order)) = 0
    /\ call.result # Null
    /\ call.result < call.block
    /\ call.back = call.block

C32_Refill ==
    [][ /\ heap_size' >= heap_size
        /\ (last'.op = "refill" /\ last'.ok) =>
              LET k == order_from_size(FRAME_SIZE)
                  f == Head(frames)
              IN  /\ frames # <<>>
                  /\ Blocks(k)' = <<f>> \o Blocks(k)
                  /\ free_lists'[k].head = f
                  /\ free_lists'[k].len = free_lists[k].len + 1
                  /\ mem'[f].size = FRAME_SIZE
                  /\ heap_size' = heap_size + FRAME_SIZE
                  /\ \A j \in Orders \ {k} :
                        free_lists'[j] = free_lists[j] /\ Blocks(j)' = Blocks(j)
        /\ (last'.op = "refill" /\ ~last'.ok) =>
              /\ frames = <<>>
              /\ free_lists' = free_lists
              /\ mem' = mem
              /\ heap_size' = heap_size
      ]_vars

\* C32 witness: a refill has put its frame in front of a block that was
\* already in the free list of FRAME_SIZE's order.
C32_Witness ==
    /\ last.op = "refill" /\ last.ok
    /\ free_lists[order_from_size(FRAME_SIZE)].len >= 2
    /\ heap_size = 2 * FRAME_SIZE

\* A refill has failed: the provider had no frame left.
C32_Failed == last.op = "refill" /\ ~last.ok

\* C33: dealloc with a layout block_order rejects panics before it writes a
\* block header or changes a free list: the panicking call leaves headers,
\* free lists and heap_size as they were.
C33_DeallocPanics ==
    [][ (last'.op = "dealloc" /\ ~last'.ok)
        => /\ Rejected(last'.layout, heap_size)
           /\ mem' = mem
           /\ free_lists' = free_lists
           /\ heap_size' = heap_size
      ]_vars

\* C33 witness: a dealloc has panicked on a layout whose alignment is above
\* FRAME_SIZE, while a free list held a block.
C33_Witness ==
    /\ last.op = "dealloc" /\ ~last.ok
    /\ last.layout.align > FRAME_SIZE
    /\ \E k \in Orders : free_lists[k].len > 0

\* A dealloc has panicked on a layout whose rounded size is above heap_size.
C33_TooLarge ==
    /\ last.op = "dealloc" /\ ~last.ok
    /\ is_power_of_two(last.layout.align) /\ last.layout.align <= FRAME_SIZE

\* C34: in a heap whose frames lie one after the other from the base, the
\* address get_buddy returns to a dealloc names a block that lies inside the
\* heap: base <= buddy and buddy + size <= base + heap_size.
C34_BuddyInHeap ==
    [][ \A a \in outstanding :
          (Contiguous /\ last'.op = "dealloc" /\ last'.ptr = a.ptr /\ last'.layout = a.layout)
            => LET order == block_order(heap_size, a.layout)
                   size  == MinBlockSize * (2 ^ order)
                   buddy == get_buddy(HeapState, a.ptr, order)
               IN  buddy # Null
                     => /\ Base <= buddy
                        /\ buddy + size <= Base + heap_size
      ]_vars

\* C35: with a provider that holds finitely many frames, every alloc call
\* that was entered returns (a pointer or an error): the recursion through
\* refill ends.
C35_AllocTerminates == Running ~> ~Running

\* Every call of alloc by itself has taken one frame from the provider: an
\* activation that calls itself leaves the provider one frame shorter.
C35_FrameTaken ==
    [][ (Running /\ Running') => Len(frames') = Len(frames) - 1 ]_vars

\* C35 witness: an alloc has returned an error after it refilled the heap,
\* called itself and found the provider empty.
C35_Witness ==
    /\ last.op = "alloc" /\ ~last.ok
    /\ last.asked >= 2
    /\ frames = <<>>
    /\ ~Running

\* The nodes reached from `node` by following prev, in the order reached.
RECURSIVE TraverseBack(_, _, _)
TraverseBack(m, node, fuel) ==
    IF node = Null \/ fuel = 0 THEN <<>>
    ELSE <<node>> \o TraverseBack(m, m[node].prev, fuel - 1)

\* The list's nodes from tail to head.
Backward == TraverseBack(nodes, list.tail, MaxNodes + 1)

Reverse(seq) == [i \in 1..Len(seq) |-> seq[Len(seq) + 1 - i]]

\* C36: insert_node_before with the cursor on the tail of a non-empty list
\* leaves list.tail on the old tail, and the backward traversal from tail is
\* the reverse of the forward traversal from head.
C36_InsertBeforeTail ==
    [][ ( /\ lret'.op = "insert_node_before"
          /\ Forward # <<>>
          /\ list.tail = Last(Forward)
          /\ cursor.current = list.tail )
        => /\ list'.tail = list.tail
           /\ Backward' = Reverse(Forward')
      ]_vars

\* C37: a node handed to insert_node_before or insert_node_after on a
\* well-formed list is reached by the forward traversal from head afterwards,
\* wherever the cursor is: on an element, on an empty list, or off the end of
\* a list that is not empty.
C37_InsertedReachable ==
    [][ (C15_Structure /\ lret'.op \in {"insert_node_before", "insert_node_after"})
        => lret'.arg \in Elems(Forward')
      ]_vars

\* The same for insert_node_before alone.
C37_BeforeReachable ==
    [][ (C15_Structure /\ lret'.op = "insert_node_before")
        => lret'.arg \in Elems(Forward')
      ]_vars

C38_Removed ==
    /\ lret.op = "remove_node" /\ lret.node # Null
    /\ list.len >= 2
    /\ cursor.current # Null /\ cursor.current # list.head

====
